---- MODULE Spec2Model ----
(***************************************************************************)
(* Model of src/thing/get.ts: the typed read accessors over a Thing (an    *)
(* ordered collection of RDF quads).  JavaScript values are modelled as    *)
(* tagged records, JavaScript strings as TLA+ strings (sliced character by *)
(* character where the code converts them), object nodes as records that   *)
(* carry exactly the properties the RDF/JS term of that kind has, plus a   *)
(* `ref` that stands for the identity of the JavaScript object.            *)
(***************************************************************************)
EXTENDS Integers, Sequences, FiniteSets, TLC

VARIABLES
  theThing,     \* the Thing every call reads: a sequence of quads
  call,         \* the accessor call made last: its name and arguments
  result,       \* the completion of that call, or of the scan that ended last
  pc,           \* idle, returned (an accessor has), findOne, findAll, done
  matcherArgs,  \* what the running scan's matcher closes over
  pos,          \* how many quads the scan's iterator has yielded
  visited,      \* the positions the matcher was applied to, in order
  matched       \* findAll's array of matching quads

vars == <<theThing, call, result, pc, matcherArgs, pos, visited, matched>>

(***************************************************************************)
(* Bounds of the model.                                                    *)
(***************************************************************************)
MaxLen == 2

(***************************************************************************)
(* JavaScript values and completions.                                      *)
(***************************************************************************)
null == [type |-> "null", val |-> "null"]
undefined == [type |-> "undefined", val |-> "undefined"]
JsString(s) == [type |-> "string", val |-> s]
JsBoolean(b) == [type |-> "boolean", val |-> b]
JsNumber(n, d) == [type |-> "number", val |-> <<n, d>>]
JsDate(fields) == [type |-> "Date", val |-> fields]

\* A call either returns a value or throws (an ECMAScript completion record).
Return(v) == [type |-> "normal", value |-> v]
Throw(e) == [type |-> "throw", value |-> JsString(e)]

\* Whether the object o has the property f; o.f is undefined when it has not,
\* and reading a property of undefined throws a TypeError.
hasProperty(o, f) == f \in DOMAIN o

(***************************************************************************)
(* RDF/JS terms and quads.                                                 *)
(***************************************************************************)
NamedNodes == [termType : {"NamedNode"}, value : STRING, ref : Nat]
BlankNodes == [termType : {"BlankNode"}, value : STRING, ref : Nat]
Literals ==
  [termType : {"Literal"}, value : STRING, datatype : NamedNodes,
   language : STRING, ref : Nat]
DefaultGraphs == [termType : {"DefaultGraph"}, value : {""}, ref : Nat]
Term == NamedNodes \cup BlankNodes \cup Literals \cup DefaultGraphs
Quad == [subject : Term, predicate : Term, object : Term, graph : Term]

namedNode(value) == [termType |-> "NamedNode", value |-> value, ref |-> 0]
blankNode(value) == [termType |-> "BlankNode", value |-> value, ref |-> 0]
literal(value, datatype, language) ==
  [termType |-> "Literal", value |-> value, datatype |-> namedNode(datatype),
   language |-> language, ref |-> 0]
defaultGraph == [termType |-> "DefaultGraph", value |-> "", ref |-> 0]

\* Term.equals of RDF/JS: same kind and same value; the identity is not compared.
equals(term, other) ==
  /\ term.termType = other.termType
  /\ term.value = other.value

xmlSchemaTypes ==
  [boolean |-> "http://www.w3.org/2001/XMLSchema#boolean",
   dateTime |-> "http://www.w3.org/2001/XMLSchema#dateTime",
   decimal |-> "http://www.w3.org/2001/XMLSchema#decimal",
   integer |-> "http://www.w3.org/2001/XMLSchema#integer",
   string |-> "http://www.w3.org/2001/XMLSchema#string",
   langString |-> "http://www.w3.org/1999/02/22-rdf-syntax-ns#langString"]

XmlSchemaTypeIri == {xmlSchemaTypes[k] : k \in DOMAIN xmlSchemaTypes}

isNamedNode(value) ==
  /\ "termType" \in DOMAIN value
  /\ value.termType = "NamedNode"

isLiteral(value) ==
  /\ "termType" \in DOMAIN value
  /\ value.termType = "Literal"

\* A predicate is given as an IRI string or as a NamedNode.
asNamedNode(iri) == IF isNamedNode(iri) THEN iri ELSE namedNode(iri.val)

(***************************************************************************)
(* Strings, character by character.                                        *)
(***************************************************************************)
charAt(s, i) == SubSeq(s, i, i)
substring(s, from) == SubSeq(s, from, Len(s))

lowerChar(c) ==
  CASE c = "A" -> "a" [] c = "B" -> "b" [] c = "C" -> "c" [] c = "D" -> "d"
    [] c = "E" -> "e" [] c = "F" -> "f" [] c = "G" -> "g" [] c = "H" -> "h"
    [] c = "I" -> "i" [] c = "J" -> "j" [] c = "K" -> "k" [] c = "L" -> "l"
    [] c = "M" -> "m" [] c = "N" -> "n" [] c = "O" -> "o" [] c = "P" -> "p"
    [] c = "Q" -> "q" [] c = "R" -> "r" [] c = "S" -> "s" [] c = "T" -> "t"
    [] c = "U" -> "u" [] c = "V" -> "v" [] c = "W" -> "w" [] c = "X" -> "x"
    [] c = "Y" -> "y" [] c = "Z" -> "z" [] OTHER -> c

RECURSIVE toLowerCase(_)
toLowerCase(s) ==
  IF s = "" THEN "" ELSE lowerChar(charAt(s, 1)) \o toLowerCase(substring(s, 2))

Digits == {"0", "1", "2", "3", "4", "5", "6", "7", "8", "9"}

digitValue(c) ==
  CASE c = "0" -> 0 [] c = "1" -> 1 [] c = "2" -> 2 [] c = "3" -> 3
    [] c = "4" -> 4 [] c = "5" -> 5 [] c = "6" -> 6 [] c = "7" -> 7
    [] c = "8" -> 8 [] c = "9" -> 9

isDigits(s) == Len(s) > 0 /\ \A i \in 1..Len(s) : charAt(s, i) \in Digits

RECURSIVE digitsValue(_, _)
digitsValue(s, acc) ==
  IF s = "" THEN acc
  ELSE digitsValue(substring(s, 2), 10 * acc + digitValue(charAt(s, 1)))

RECURSIVE pow10(_)
pow10(n) == IF n = 0 THEN 1 ELSE 10 * pow10(n - 1)

\* The position of the first "." of s, 0 when there is none.
indexOfDot(s) ==
  IF \E i \in 1..Len(s) : charAt(s, i) = "."
  THEN CHOOSE i \in 1..Len(s) :
         /\ charAt(s, i) = "."
         /\ \A j \in 1..(i - 1) : charAt(s, j) # "."
  ELSE 0

hasSign(s) == Len(s) > 0 /\ charAt(s, 1) \in {"+", "-"}
signOf(s) == IF Len(s) > 0 /\ charAt(s, 1) = "-" THEN -1 ELSE 1
unsigned(s) == IF hasSign(s) THEN substring(s, 2) ELSE s

\* One number has one representation: n / d with d the least power of ten.
RECURSIVE normalNumber(_, _)
normalNumber(n, d) ==
  IF d > 1 /\ n % 10 = 0 THEN normalNumber(n \div 10, d \div 10) ELSE JsNumber(n, d)

(***************************************************************************)
(* The typed deserializers: each maps a lexical form to a value, or to     *)
(* null when the lexical form is not one of its type.  None of them throws.*)
(***************************************************************************)
deserializeBoolean(value) ==
  IF value = "true" \/ value = "1" THEN JsBoolean(TRUE)
  ELSE IF value = "false" \/ value = "0" THEN JsBoolean(FALSE)
  ELSE null

\* An optional sign and one or more digits; a fractional form is rejected.
deserializeInteger(value) ==
  IF isDigits(unsigned(value))
  THEN JsNumber(signOf(value) * digitsValue(unsigned(value), 0), 1)
  ELSE null

\* An optional sign, digits and optionally a "." followed by digits.
deserializeDecimal(value) ==
  LET body == unsigned(value)
      dot == indexOfDot(body)
      whole == IF dot = 0 THEN body ELSE SubSeq(body, 1, dot - 1)
      fraction == IF dot = 0 THEN "" ELSE substring(body, dot + 1)
  IN IF dot = 0
     THEN (IF isDigits(whole)
           THEN JsNumber(signOf(value) * digitsValue(whole, 0), 1)
           ELSE null)
     ELSE (IF isDigits(whole) /\ isDigits(fraction)
           THEN LET n == normalNumber(digitsValue(whole \o fraction, 0),
                                      pow10(Len(fraction)))
                IN JsNumber(signOf(value) * n.val[1], n.val[2])
           ELSE null)

\* YYYY-MM-DD, month 01..12 and day 01..31.
isDate(s) ==
  /\ Len(s) = 10
  /\ isDigits(SubSeq(s, 1, 4)) /\ charAt(s, 5) = "-"
  /\ isDigits(SubSeq(s, 6, 7)) /\ charAt(s, 8) = "-"
  /\ isDigits(SubSeq(s, 9, 10))
  /\ digitsValue(SubSeq(s, 6, 7), 0) \in 1..12
  /\ digitsValue(SubSeq(s, 9, 10), 0) \in 1..31

\* Thh:mm:ss, hour 00..23, minute and second 00..59.
isTime(s) ==
  /\ Len(s) = 9
  /\ charAt(s, 1) = "T"
  /\ isDigits(SubSeq(s, 2, 3)) /\ charAt(s, 4) = ":"
  /\ isDigits(SubSeq(s, 5, 6)) /\ charAt(s, 7) = ":"
  /\ isDigits(SubSeq(s, 8, 9))
  /\ digitsValue(SubSeq(s, 2, 3), 0) \in 0..23
  /\ digitsValue(SubSeq(s, 5, 6), 0) \in 0..59
  /\ digitsValue(SubSeq(s, 8, 9), 0) \in 0..59

\* Z, +hh:mm or -hh:mm.
isOffset(s) ==
  \/ s = "Z"
  \/ /\ Len(s) = 6
     /\ charAt(s, 1) \in {"+", "-"}
     /\ isDigits(SubSeq(s, 2, 3)) /\ charAt(s, 4) = ":"
     /\ isDigits(SubSeq(s, 5, 6))
     /\ digitsValue(SubSeq(s, 2, 3), 0) \in 0..23
     /\ digitsValue(SubSeq(s, 5, 6), 0) \in 0..59

offsetMinutes(s) ==
  IF s = "Z" THEN 0
  ELSE signOf(s) * (60 * digitsValue(SubSeq(s, 2, 3), 0)
                    + digitsValue(SubSeq(s, 5, 6), 0))

\* ISO 8601 extended form: a date, optionally a time, optionally an offset.
deserializeDatetime(value) ==
  LET date == SubSeq(value, 1, 10)
      rest == substring(value, 11)
      time == IF Len(rest) >= 9 THEN SubSeq(rest, 1, 9) ELSE ""
      offset == IF time = "" THEN rest ELSE substring(rest, 10)
  IN IF /\ Len(value) >= 10
        /\ isDate(date)
        /\ (time = "" \/ isTime(time))
        /\ (offset = "" \/ isOffset(offset))
     THEN JsDate([year |-> digitsValue(SubSeq(date, 1, 4), 0),
                  month |-> digitsValue(SubSeq(date, 6, 7), 0),
                  day |-> digitsValue(SubSeq(date, 9, 10), 0),
                  hour |-> IF time = "" THEN 0 ELSE digitsValue(SubSeq(time, 2, 3), 0),
                  minute |-> IF time = "" THEN 0 ELSE digitsValue(SubSeq(time, 5, 6), 0),
                  second |-> IF time = "" THEN 0 ELSE digitsValue(SubSeq(time, 8, 9), 0),
                  offset |-> IF offset = "" THEN "naive"
                             ELSE JsNumber(offsetMinutes(offset), 1)])
     ELSE null

(***************************************************************************)
(* The matchers.  A matcher is a function over quads that closes over the  *)
(* canonical predicate (and the datatype or the locale); applying it       *)
(* returns a boolean, or throws where the code reads a property of         *)
(* undefined.                                                              *)
(***************************************************************************)
\* getNamedNodeMatcher without the test of the object's kind.
getNamedNodeMatcherAnyObject(predicate) ==
  LET predicateNode == asNamedNode(predicate)
  IN [quad \in Quad |-> Return(equals(predicateNode, quad.predicate))]

getNamedNodeMatcher(predicate) ==
  LET predicateNode == asNamedNode(predicate)
  IN [quad \in Quad |->
        Return(equals(predicateNode, quad.predicate) /\ isNamedNode(quad.object))]

getLiteralMatcher(predicate) ==
  LET predicateNode == asNamedNode(predicate)
  IN [quad \in Quad |->
        Return(equals(predicateNode, quad.predicate) /\ isLiteral(quad.object))]

\* getLiteralOfTypeMatcher without the comparison of the datatype.
getLiteralOfTypeMatcherAnyType(predicate, datatype) ==
  LET predicateNode == asNamedNode(predicate)
  IN [quad \in Quad |->
        Return(equals(predicateNode, quad.predicate) /\ isLiteral(quad.object))]

\* getLiteralOfTypeMatcher without the isLiteral guard: it reads
\* quad.object.datatype.value of any object.
getLiteralOfTypeMatcherUnguarded(predicate, datatype) ==
  LET predicateNode == asNamedNode(predicate)
  IN [quad \in Quad |->
        IF ~equals(predicateNode, quad.predicate) THEN Return(FALSE)
        ELSE IF ~hasProperty(quad.object, "datatype")
          THEN Throw("TypeError")
        ELSE Return(quad.object.datatype.value = datatype)]

getLiteralOfTypeMatcher(predicate, datatype) ==
  LET predicateNode == asNamedNode(predicate)
  IN [quad \in Quad |->
        IF ~equals(predicateNode, quad.predicate) THEN Return(FALSE)
        ELSE IF ~isLiteral(quad.object) THEN Return(FALSE)
        ELSE IF ~hasProperty(quad.object, "datatype")
          THEN Throw("TypeError")
        ELSE Return(quad.object.datatype.value = datatype)]

\* getLocaleStringMatcher that lower-cases the language tag only.
getLocaleStringMatcherOneSided(predicate, locale) ==
  LET predicateNode == asNamedNode(predicate)
  IN [quad \in Quad |->
        IF ~equals(predicateNode, quad.predicate) THEN Return(FALSE)
        ELSE IF ~isLiteral(quad.object) THEN Return(FALSE)
        ELSE IF quad.object.datatype.value # xmlSchemaTypes.langString
          THEN Return(FALSE)
        ELSE Return(toLowerCase(quad.object.language) = locale)]

getLocaleStringMatcher(predicate, locale) ==
  LET predicateNode == asNamedNode(predicate)
  IN [quad \in Quad |->
        IF ~equals(predicateNode, quad.predicate) THEN Return(FALSE)
        ELSE IF ~isLiteral(quad.object) THEN Return(FALSE)
        ELSE IF ~hasProperty(quad.object, "datatype")
          THEN Throw("TypeError")
        ELSE IF quad.object.datatype.value # xmlSchemaTypes.langString
          THEN Return(FALSE)
        ELSE IF ~hasProperty(quad.object, "language")
          THEN Throw("TypeError")
        ELSE Return(toLowerCase(quad.object.language) = toLowerCase(locale))]

(***************************************************************************)
(* The statement scanner, as the functions the accessors call.             *)
(***************************************************************************)
RECURSIVE findOneFrom(_, _, _)
findOneFrom(thing, matcher, i) ==
  IF i > Len(thing) THEN Return(null)
  ELSE LET quad == thing[i]
           hit == matcher[quad]
       IN IF hit.type = "throw" THEN hit
          ELSE IF hit.value THEN Return(quad)
          ELSE findOneFrom(thing, matcher, i + 1)

\* findOne that starts at the second statement.
findOneFromSecond(thing, matcher) == findOneFrom(thing, matcher, 2)

findOne(thing, matcher) == findOneFrom(thing, matcher, 1)

\* findAll that adds each match at the front of the array (unshift for push).
RECURSIVE findAllFromUnshift(_, _, _, _)
findAllFromUnshift(thing, matcher, i, soFar) ==
  IF i > Len(thing) THEN Return(soFar)
  ELSE LET quad == thing[i]
           hit == matcher[quad]
       IN IF hit.type = "throw" THEN hit
          ELSE findAllFromUnshift(thing, matcher, i + 1,
                                  IF hit.value THEN <<quad>> \o soFar ELSE soFar)

RECURSIVE findAllFrom(_, _, _, _)
findAllFrom(thing, matcher, i, soFar) ==
  IF i > Len(thing) THEN Return(soFar)
  ELSE LET quad == thing[i]
           hit == matcher[quad]
       IN IF hit.type = "throw" THEN hit
          ELSE findAllFrom(thing, matcher, i + 1,
                           IF hit.value THEN Append(soFar, quad) ELSE soFar)

findAll(thing, matcher) == findAllFrom(thing, matcher, 1, <<>>)

\* Array.prototype.map and Array.prototype.filter.
\* The callback is a function over the values it may be given.
map(array, callback) == [i \in 1..Len(array) |-> callback[array[i]]]
JsStrings == [type : {"string"}, val : STRING]
isNotNull(v) == v # null
\* The array without the filter.
keepNull(array) == array

filterNotNull(array) == SelectSeq(array, isNotNull)

(***************************************************************************)
(* The accessors.  Each returns a completion: Return(value) or a throw     *)
(* that one of its callees raised.                                         *)
(***************************************************************************)
getLiteralOneOfType(thing, predicate, literalType) ==
  LET literalOfTypeMatcher == getLiteralOfTypeMatcher(predicate, literalType)
      matchingQuad == findOne(thing, literalOfTypeMatcher)
  IN IF matchingQuad.type = "throw" THEN matchingQuad
     ELSE IF matchingQuad.value = null THEN Return(null)
     ELSE Return(JsString(matchingQuad.value.object.value))

getLiteralAllOfType(thing, predicate, literalType) ==
  LET literalOfTypeMatcher == getLiteralOfTypeMatcher(predicate, literalType)
      matchingQuads == findAll(thing, literalOfTypeMatcher)
  IN IF matchingQuads.type = "throw" THEN matchingQuads
     ELSE Return(map(matchingQuads.value, [quad \in Quad |-> JsString(quad.object.value)]))

getIriOne(thing, predicate) ==
  LET namedNodeMatcher == getNamedNodeMatcher(predicate)
      matchingQuad == findOne(thing, namedNodeMatcher)
  IN IF matchingQuad.type = "throw" THEN matchingQuad
     ELSE IF matchingQuad.value = null THEN Return(null)
     ELSE Return(JsString(matchingQuad.value.object.value))

getIriAll(thing, predicate) ==
  LET iriMatcher == getNamedNodeMatcher(predicate)
      matchingQuads == findAll(thing, iriMatcher)
  IN IF matchingQuads.type = "throw" THEN matchingQuads
     ELSE Return(map(matchingQuads.value, [quad \in Quad |-> JsString(quad.object.value)]))

\* getBooleanOne that goes on to the first literal that deserializes.
getBooleanOneFallThrough(thing, predicate) ==
  LET literalStrings == getLiteralAllOfType(thing, predicate, xmlSchemaTypes.boolean)
      booleans == filterNotNull(
                    map(literalStrings.value, [s \in JsStrings |-> deserializeBoolean(s.val)]))
  IN IF literalStrings.type = "throw" THEN literalStrings
     ELSE IF booleans = <<>> THEN Return(null)
     ELSE Return(booleans[1])

getBooleanOne(thing, predicate) ==
  LET literalString == getLiteralOneOfType(thing, predicate, xmlSchemaTypes.boolean)
  IN IF literalString.type = "throw" THEN literalString
     ELSE IF literalString.value = null THEN Return(null)
     ELSE Return(deserializeBoolean(literalString.value.val))

getBooleanAll(thing, predicate) ==
  LET literalStrings == getLiteralAllOfType(thing, predicate, xmlSchemaTypes.boolean)
  IN IF literalStrings.type = "throw" THEN literalStrings
     ELSE Return(filterNotNull(
            map(literalStrings.value, [s \in JsStrings |-> deserializeBoolean(s.val)])))

getDatetimeOne(thing, predicate) ==
  LET literalString == getLiteralOneOfType(thing, predicate, xmlSchemaTypes.dateTime)
  IN IF literalString.type = "throw" THEN literalString
     ELSE IF literalString.value = null THEN Return(null)
     ELSE Return(deserializeDatetime(literalString.value.val))

getDatetimeAll(thing, predicate) ==
  LET literalStrings == getLiteralAllOfType(thing, predicate, xmlSchemaTypes.dateTime)
  IN IF literalStrings.type = "throw" THEN literalStrings
     ELSE Return(filterNotNull(
            map(literalStrings.value, [s \in JsStrings |-> deserializeDatetime(s.val)])))

getDecimalOne(thing, predicate) ==
  LET literalString == getLiteralOneOfType(thing, predicate, xmlSchemaTypes.decimal)
  IN IF literalString.type = "throw" THEN literalString
     ELSE IF literalString.value = null THEN Return(null)
     ELSE Return(deserializeDecimal(literalString.value.val))

getDecimalAll(thing, predicate) ==
  LET literalStrings == getLiteralAllOfType(thing, predicate, xmlSchemaTypes.decimal)
  IN IF literalStrings.type = "throw" THEN literalStrings
     ELSE Return(filterNotNull(
            map(literalStrings.value, [s \in JsStrings |-> deserializeDecimal(s.val)])))

getIntegerOne(thing, predicate) ==
  LET literalString == getLiteralOneOfType(thing, predicate, xmlSchemaTypes.integer)
  IN IF literalString.type = "throw" THEN literalString
     ELSE IF literalString.value = null THEN Return(null)
     ELSE Return(deserializeInteger(literalString.value.val))

getIntegerAll(thing, predicate) ==
  LET literalStrings == getLiteralAllOfType(thing, predicate, xmlSchemaTypes.integer)
  IN IF literalStrings.type = "throw" THEN literalStrings
     ELSE Return(filterNotNull(
            map(literalStrings.value, [s \in JsStrings |-> deserializeInteger(s.val)])))

getStringInLocaleOne(thing, predicate, locale) ==
  LET localeStringMatcher == getLocaleStringMatcher(predicate, locale)
      matchingQuad == findOne(thing, localeStringMatcher)
  IN IF matchingQuad.type = "throw" THEN matchingQuad
     ELSE IF matchingQuad.value = null THEN Return(null)
     ELSE Return(JsString(matchingQuad.value.object.value))

getStringInLocaleAll(thing, predicate, locale) ==
  LET localeStringMatcher == getLocaleStringMatcher(predicate, locale)
      matchingQuads == findAll(thing, localeStringMatcher)
  IN IF matchingQuads.type = "throw" THEN matchingQuads
     ELSE Return(map(matchingQuads.value, [quad \in Quad |-> JsString(quad.object.value)]))

getStringUnlocalizedOne(thing, predicate) ==
  LET literalString == getLiteralOneOfType(thing, predicate, xmlSchemaTypes.string)
  IN literalString

getStringUnlocalizedAll(thing, predicate) ==
  LET literalStrings == getLiteralAllOfType(thing, predicate, xmlSchemaTypes.string)
  IN literalStrings

getNamedNodeOne(thing, predicate) ==
  LET namedNodeMatcher == getNamedNodeMatcher(predicate)
      matchingQuad == findOne(thing, namedNodeMatcher)
  IN IF matchingQuad.type = "throw" THEN matchingQuad
     ELSE IF matchingQuad.value = null THEN Return(null)
     ELSE Return(matchingQuad.value.object)

getNamedNodeAll(thing, predicate) ==
  LET namedNodeMatcher == getNamedNodeMatcher(predicate)
      matchingQuads == findAll(thing, namedNodeMatcher)
  IN IF matchingQuads.type = "throw" THEN matchingQuads
     ELSE Return(map(matchingQuads.value, [quad \in Quad |-> quad.object]))

getLiteralOne(thing, predicate) ==
  LET literalMatcher == getLiteralMatcher(predicate)
      matchingQuad == findOne(thing, literalMatcher)
  IN IF matchingQuad.type = "throw" THEN matchingQuad
     ELSE IF matchingQuad.value = null THEN Return(null)
     ELSE Return(matchingQuad.value.object)

\* getLiteralAll that returns copies of the nodes.
getLiteralAllCopies(thing, predicate) ==
  LET literalMatcher == getLiteralMatcher(predicate)
      matchingQuads == findAll(thing, literalMatcher)
  IN IF matchingQuads.type = "throw" THEN matchingQuads
     ELSE Return(map(matchingQuads.value,
                     [quad \in Quad |-> [quad.object EXCEPT !.ref = 0]]))

getLiteralAll(thing, predicate) ==
  LET literalMatcher == getLiteralMatcher(predicate)
      matchingQuads == findAll(thing, literalMatcher)
  IN IF matchingQuads.type = "throw" THEN matchingQuads
     ELSE Return(map(matchingQuads.value, [quad \in Quad |-> quad.object]))

(***************************************************************************)
(* The inputs: the quads a Thing is built from, and the arguments of the   *)
(* calls.                                                                  *)
(***************************************************************************)
subjectIri == "https://example.test/s"
p == "https://example.test/p"
q == "https://example.test/q"

statement(predicate, object) ==
  [subject |-> namedNode(subjectIri), predicate |-> namedNode(predicate),
   object |-> object, graph |-> defaultGraph]

Statements ==
  { statement(p, namedNode("https://example.test/a")),
    statement(p, namedNode("https://example.test/b")),
    statement(p, blankNode("b0")),
    statement(p, literal("true", xmlSchemaTypes.boolean, "")),
    statement(p, literal("maybe", xmlSchemaTypes.boolean, "")),
    statement(p, literal("3", xmlSchemaTypes.integer, "")),
    statement(p, literal("3.5", xmlSchemaTypes.integer, "")),
    statement(p, literal("3", xmlSchemaTypes.decimal, "")),
    statement(p, literal("3.x", xmlSchemaTypes.decimal, "")),
    statement(p, literal("2020-01-01T00:00:00Z", xmlSchemaTypes.dateTime, "")),
    statement(p, literal("yesterday", xmlSchemaTypes.dateTime, "")),
    statement(p, literal("hi", xmlSchemaTypes.string, "")),
    statement(p, literal("Hi", xmlSchemaTypes.langString, "EN")),
    statement(p, literal("Howdy", xmlSchemaTypes.langString, "en-US")),
    statement(q, namedNode("https://example.test/a")),
    statement(q, literal("true", xmlSchemaTypes.boolean, "")) }

\* Every object node of a Thing is an object of its own: the i-th has identity i.
allocate(quads) ==
  [i \in 1..Len(quads) |-> [quads[i] EXCEPT !.object.ref = i]]

Things ==
  UNION { {allocate(quads) : quads \in [1..n -> Statements]} : n \in 0..MaxLen }

PredicateArgs == {JsString(p), namedNode(p), JsString(q)}
Locales == {"en", "EN", "en-us"}

NoCall == [fn |-> "none", predicate |-> undefined, locale |-> undefined]
NoResult == Return(undefined)
NoMatcher ==
  [kind |-> "none", predicate |-> undefined, datatype |-> "", locale |-> ""]

MatcherArgs ==
  [kind : {"NamedNode"}, predicate : {JsString(p), JsString(q)},
   datatype : {""}, locale : {""}]
  \cup [kind : {"Literal"}, predicate : {JsString(p)},
        datatype : {""}, locale : {""}]
  \cup [kind : {"LiteralOfType"}, predicate : {namedNode(p)},
        datatype : {xmlSchemaTypes.boolean, xmlSchemaTypes.integer}, locale : {""}]
  \cup [kind : {"LocaleString"}, predicate : {JsString(p)},
        datatype : {""}, locale : {"en"}]

\* The matcher a scan runs with.
matcherOf(args) ==
  CASE args.kind = "NamedNode" -> getNamedNodeMatcher(args.predicate)
    [] args.kind = "Literal" -> getLiteralMatcher(args.predicate)
    [] args.kind = "LiteralOfType" ->
         getLiteralOfTypeMatcher(args.predicate, args.datatype)
    [] args.kind = "LocaleString" ->
         getLocaleStringMatcher(args.predicate, args.locale)

(***************************************************************************)
(* The state machine.  A Thing is built outside this module and handed to  *)
(* it; then accessors are called on it, one call after the other.          *)
(***************************************************************************)
Init ==
  /\ theThing \in Things
  /\ call = NoCall
  /\ result = NoResult
  /\ pc = "idle"
  /\ matcherArgs = NoMatcher
  /\ pos = 0
  /\ visited = <<>>
  /\ matched = <<>>

\* A whole accessor call: it runs to completion, and leaves the Thing alone.
Invoke(fn, predicate, locale, completion) ==
  /\ pc = "idle"
  /\ call' = [fn |-> fn, predicate |-> predicate, locale |-> locale]
  /\ result' = completion
  /\ pc' = "returned"
  /\ matcherArgs' = NoMatcher
  /\ pos' = 0
  /\ visited' = <<>>
  /\ matched' = <<>>
  /\ theThing' = theThing

GetIriOne ==
  \E predicate \in PredicateArgs :
    Invoke("getIriOne", predicate, undefined, getIriOne(theThing, predicate))
GetIriAll ==
  \E predicate \in PredicateArgs :
    Invoke("getIriAll", predicate, undefined, getIriAll(theThing, predicate))
GetBooleanOne ==
  \E predicate \in PredicateArgs :
    Invoke("getBooleanOne", predicate, undefined, getBooleanOne(theThing, predicate))
GetBooleanAll ==
  \E predicate \in PredicateArgs :
    Invoke("getBooleanAll", predicate, undefined, getBooleanAll(theThing, predicate))
GetDatetimeOne ==
  \E predicate \in PredicateArgs :
    Invoke("getDatetimeOne", predicate, undefined, getDatetimeOne(theThing, predicate))
GetDatetimeAll ==
  \E predicate \in PredicateArgs :
    Invoke("getDatetimeAll", predicate, undefined, getDatetimeAll(theThing, predicate))
GetDecimalOne ==
  \E predicate \in PredicateArgs :
    Invoke("getDecimalOne", predicate, undefined, getDecimalOne(theThing, predicate))
GetDecimalAll ==
  \E predicate \in PredicateArgs :
    Invoke("getDecimalAll", predicate, undefined, getDecimalAll(theThing, predicate))
GetIntegerOne ==
  \E predicate \in PredicateArgs :
    Invoke("getIntegerOne", predicate, undefined, getIntegerOne(theThing, predicate))
GetIntegerAll ==
  \E predicate \in PredicateArgs :
    Invoke("getIntegerAll", predicate, undefined, getIntegerAll(theThing, predicate))
GetStringInLocaleOne ==
  \E predicate \in PredicateArgs, locale \in Locales :
    Invoke("getStringInLocaleOne", predicate, JsString(locale),
           getStringInLocaleOne(theThing, predicate, locale))
GetStringInLocaleAll ==
  \E predicate \in PredicateArgs, locale \in Locales :
    Invoke("getStringInLocaleAll", predicate, JsString(locale),
           getStringInLocaleAll(theThing, predicate, locale))
GetStringUnlocalizedOne ==
  \E predicate \in PredicateArgs :
    Invoke("getStringUnlocalizedOne", predicate, undefined,
           getStringUnlocalizedOne(theThing, predicate))
GetStringUnlocalizedAll ==
  \E predicate \in PredicateArgs :
    Invoke("getStringUnlocalizedAll", predicate, undefined,
           getStringUnlocalizedAll(theThing, predicate))
GetNamedNodeOne ==
  \E predicate \in PredicateArgs :
    Invoke("getNamedNodeOne", predicate, undefined, getNamedNodeOne(theThing, predicate))
GetNamedNodeAll ==
  \E predicate \in PredicateArgs :
    Invoke("getNamedNodeAll", predicate, undefined, getNamedNodeAll(theThing, predicate))
GetLiteralOne ==
  \E predicate \in PredicateArgs :
    Invoke("getLiteralOne", predicate, undefined, getLiteralOne(theThing, predicate))
GetLiteralAll ==
  \E predicate \in PredicateArgs :
    Invoke("getLiteralAll", predicate, undefined, getLiteralAll(theThing, predicate))

(***************************************************************************)
(* The scanner step by step: one action per turn of its for...of loop.     *)
(* `visited` records every application of the matcher.                     *)
(***************************************************************************)
Enter(fn, args) ==
  /\ pc = "idle"
  /\ pc' = fn
  /\ matcherArgs' = args
  /\ pos' = 0
  /\ visited' = <<>>
  /\ matched' = <<>>
  /\ call' = [fn |-> fn, predicate |-> args.predicate, locale |-> undefined]
  /\ result' = NoResult
  /\ theThing' = theThing

FindOneEnter == \E args \in MatcherArgs : Enter("findOne", args)

\* findOne's loop without the return at the first match.
FindOneLoopNoReturn ==
  /\ pc = "findOne"
  /\ pos < Len(theThing)
  /\ LET next == theThing[pos + 1]
         hit == matcherOf(matcherArgs)[next]
     IN /\ pos' = pos + 1
        /\ visited' = Append(visited, pos + 1)
        /\ IF hit.type = "throw" THEN pc' = "done" /\ result' = hit
           ELSE IF hit.value /\ pos + 1 = Len(theThing)
             THEN pc' = "done" /\ result' = Return(next)
           ELSE pc' = pc /\ result' = result
  /\ UNCHANGED <<theThing, call, matcherArgs, matched>>

FindOneLoop ==
  /\ pc = "findOne"
  /\ pos < Len(theThing)
  /\ LET next == theThing[pos + 1]
         hit == matcherOf(matcherArgs)[next]
     IN /\ pos' = pos + 1
        /\ visited' = Append(visited, pos + 1)
        /\ IF hit.type = "throw" THEN pc' = "done" /\ result' = hit
           ELSE IF hit.value THEN pc' = "done" /\ result' = Return(next)
           ELSE pc' = pc /\ result' = result
  /\ UNCHANGED <<theThing, call, matcherArgs, matched>>

FindOneReturnNull ==
  /\ pc = "findOne"
  /\ pos = Len(theThing)
  /\ pc' = "done"
  /\ result' = Return(null)
  /\ UNCHANGED <<theThing, call, matcherArgs, pos, visited, matched>>

FindAllEnter == \E args \in MatcherArgs : Enter("findAll", args)

FindAllLoop ==
  /\ pc = "findAll"
  /\ pos < Len(theThing)
  /\ LET next == theThing[pos + 1]
         hit == matcherOf(matcherArgs)[next]
     IN /\ pos' = pos + 1
        /\ visited' = Append(visited, pos + 1)
        /\ IF hit.type = "throw"
           THEN pc' = "done" /\ result' = hit /\ matched' = matched
           ELSE /\ pc' = pc
                /\ result' = result
                /\ matched' = IF hit.value THEN Append(matched, next) ELSE matched
  /\ UNCHANGED <<theThing, call, matcherArgs>>

FindAllReturn ==
  /\ pc = "findAll"
  /\ pos = Len(theThing)
  /\ pc' = "done"
  /\ result' = Return(matched)
  /\ UNCHANGED <<theThing, call, matcherArgs, pos, visited, matched>>

\* The caller has the result and goes on; it may call again.
Continue ==
  /\ pc \in {"returned", "done"}
  /\ pc' = "idle"
  /\ call' = NoCall
  /\ result' = NoResult
  /\ matcherArgs' = NoMatcher
  /\ pos' = 0
  /\ visited' = <<>>
  /\ matched' = <<>>
  /\ theThing' = theThing

Next ==
  \/ GetIriOne \/ GetIriAll
  \/ GetBooleanOne \/ GetBooleanAll
  \/ GetDatetimeOne \/ GetDatetimeAll
  \/ GetDecimalOne \/ GetDecimalAll
  \/ GetIntegerOne \/ GetIntegerAll
  \/ GetStringInLocaleOne \/ GetStringInLocaleAll
  \/ GetStringUnlocalizedOne \/ GetStringUnlocalizedAll
  \/ GetNamedNodeOne \/ GetNamedNodeAll
  \/ GetLiteralOne \/ GetLiteralAll
  \/ FindOneEnter \/ FindOneLoop \/ FindOneReturnNull
  \/ FindAllEnter \/ FindAllLoop \/ FindAllReturn
  \/ Continue

Spec == Init /\ [][Next]_vars

(***************************************************************************)
(* What the properties below are stated with.                              *)
(***************************************************************************)
\* The exported accessors by name.
accessor(fn, thing, predicate, locale) ==
  CASE fn = "getIriOne" -> getIriOne(thing, predicate)
    [] fn = "getIriAll" -> getIriAll(thing, predicate)
    [] fn = "getBooleanOne" -> getBooleanOne(thing, predicate)
    [] fn = "getBooleanAll" -> getBooleanAll(thing, predicate)
    [] fn = "getDatetimeOne" -> getDatetimeOne(thing, predicate)
    [] fn = "getDatetimeAll" -> getDatetimeAll(thing, predicate)
    [] fn = "getDecimalOne" -> getDecimalOne(thing, predicate)
    [] fn = "getDecimalAll" -> getDecimalAll(thing, predicate)
    [] fn = "getIntegerOne" -> getIntegerOne(thing, predicate)
    [] fn = "getIntegerAll" -> getIntegerAll(thing, predicate)
    [] fn = "getStringInLocaleOne" -> getStringInLocaleOne(thing, predicate, locale.val)
    [] fn = "getStringInLocaleAll" -> getStringInLocaleAll(thing, predicate, locale.val)
    [] fn = "getStringUnlocalizedOne" -> getStringUnlocalizedOne(thing, predicate)
    [] fn = "getStringUnlocalizedAll" -> getStringUnlocalizedAll(thing, predicate)
    [] fn = "getNamedNodeOne" -> getNamedNodeOne(thing, predicate)
    [] fn = "getNamedNodeAll" -> getNamedNodeAll(thing, predicate)
    [] fn = "getLiteralOne" -> getLiteralOne(thing, predicate)
    [] fn = "getLiteralAll" -> getLiteralAll(thing, predicate)

\* The scalar accessor pairs, and the four of them that deserialize.
DeserializingPairs == {"Boolean", "Datetime", "Decimal", "Integer"}
ScalarPairs == DeserializingPairs \cup {"Iri", "StringInLocale", "StringUnlocalized"}
oneOf(X) == "get" \o X \o "One"
allOf(X) == "get" \o X \o "All"

\* An accessor of the pair X has returned: what it returned, and what the
\* other accessor of the pair gives for the arguments of that call.
returnedFrom(fn) == pc = "returned" /\ call.fn = fn
oneResult(X) ==
  IF call.fn = oneOf(X) THEN result
  ELSE accessor(oneOf(X), theThing, call.predicate, call.locale)
allResult(X) ==
  IF call.fn = allOf(X) THEN result
  ELSE accessor(allOf(X), theThing, call.predicate, call.locale)

\* The IRI a predicate argument denotes.
iriOf(predicate) == IF isNamedNode(predicate) THEN predicate.value ELSE predicate.val

Range(f) == {f[i] : i \in DOMAIN f}

\* The elements of a set of positions, in ascending order.
RECURSIVE ascending(_)
ascending(S) ==
  IF S = {} THEN <<>>
  ELSE LET least == CHOOSE i \in S : \A j \in S : i <= j
       IN <<least>> \o ascending(S \ {least})

\* The positions of theThing's statements that have the called predicate and
\* whose object satisfies `wanted`, in statement order.
positionsWith(wanted(_)) ==
  ascending({i \in 1..Len(theThing) :
               /\ theThing[i].predicate.termType = "NamedNode"
               /\ theThing[i].predicate.value = iriOf(call.predicate)
               /\ wanted(theThing[i].object)})

\* C1 as the specification states it, for every scalar accessor pair:
\* getXOne is null if and only if getXAll is empty.
C1_AsStated ==
  pc = "returned" => \A X \in ScalarPairs :
    (returnedFrom(oneOf(X)) \/ returnedFrom(allOf(X))) =>
      (oneResult(X).value = null <=> allResult(X).value = <<>>)

\* C1, as amended: for every scalar accessor pair, getXOne is null whenever
\* getXAll is empty; and for the pairs that do not deserialize (Iri,
\* StringInLocale, StringUnlocalized) getXAll is empty whenever getXOne is null.
C1_NullIffEmpty ==
  pc = "returned" => \A X \in ScalarPairs :
    (returnedFrom(oneOf(X)) \/ returnedFrom(allOf(X))) =>
      /\ allResult(X).value = <<>> => oneResult(X).value = null
      /\ X \notin DeserializingPairs =>
           (oneResult(X).value = null => allResult(X).value = <<>>)

\* C1's case: getIriOne returned null for a predicate the Thing has statements
\* of, none of them with an IRI-reference object.
C1_Witness ==
  /\ returnedFrom("getIriOne")
  /\ result.value = null
  /\ Len(positionsWith(isLiteral)) >= 2
  /\ allResult("Iri").value = <<>>

\* C2: whenever getXOne returns a value, getXAll is not empty and its first
\* element is that value.
C2_OneIsFirstOfAll ==
  pc = "returned" => \A X \in ScalarPairs :
    (returnedFrom(oneOf(X)) /\ result.value # null) =>
      /\ allResult(X).type = "normal"
      /\ allResult(X).value # <<>>
      /\ allResult(X).value[1] = result.value

\* C2's case: getDecimalOne returned a number from a Thing that also holds a
\* decimal literal it cannot deserialize.
C2_Witness ==
  /\ returnedFrom("getDecimalOne")
  /\ result.value # null
  /\ Len(allResult("Decimal").value) = 1
  /\ Len(positionsWith(LAMBDA o : isLiteral(o)
                                  /\ o.datatype.value = xmlSchemaTypes.decimal)) = 2

\* C3: getIriAll is the sequence of the object values of exactly the statements
\* with predicate P and an IRI-reference object, in statement order, duplicates
\* kept; getIriOne is the first of them, or null when there is none.
C3_IriAll ==
  LET hits == positionsWith(isNamedNode)
      values == [k \in 1..Len(hits) |-> JsString(theThing[hits[k]].object.value)]
  IN /\ returnedFrom("getIriAll") =>
          /\ result = Return(values)
          /\ Len(result.value) =
               Cardinality({i \in 1..Len(theThing) :
                              /\ theThing[i].predicate.value = iriOf(call.predicate)
                              /\ theThing[i].object.termType = "NamedNode"})
     /\ returnedFrom("getIriOne") =>
          result = Return(IF values = <<>> THEN null ELSE values[1])

\* C3's case: getIriAll returned two different IRIs, in the order of their
\* statements.
C3_Witness ==
  /\ returnedFrom("getIriAll")
  /\ Len(theThing) >= 2
  /\ result.value = <<JsString(theThing[1].object.value),
                      JsString(theThing[2].object.value)>>
  /\ result.value[1] # result.value[2]

\* The datatype a datatype-qualified accessor pair asks for, and the
\* deserializer of a deserializing pair.
TypedPairs == DeserializingPairs \cup {"StringInLocale", "StringUnlocalized"}
datatypeOf(X) ==
  CASE X = "Boolean" -> xmlSchemaTypes.boolean
    [] X = "Datetime" -> xmlSchemaTypes.dateTime
    [] X = "Decimal" -> xmlSchemaTypes.decimal
    [] X = "Integer" -> xmlSchemaTypes.integer
    [] X = "StringUnlocalized" -> xmlSchemaTypes.string
    [] X = "StringInLocale" -> xmlSchemaTypes.langString
deserialize(X, lexical) ==
  CASE X = "Boolean" -> deserializeBoolean(lexical)
    [] X = "Datetime" -> deserializeDatetime(lexical)
    [] X = "Decimal" -> deserializeDecimal(lexical)
    [] X = "Integer" -> deserializeInteger(lexical)

\* The positions of the statements with the called predicate whose object is a
\* literal of exactly the datatype of X.
literalsOf(X) ==
  positionsWith(LAMBDA o : o.termType = "Literal" /\ o.datatype.value = datatypeOf(X))

\* C4: a deserializing getXAll returns the deserialized values of exactly the
\* statements that match P and the datatype and whose lexical value
\* deserializes, in statement order; the others are dropped: no null in the
\* result, and no failure.  "true" and "maybe" give [true] in either order.
C4_AllDropsFailures ==
  pc = "returned" => \A X \in DeserializingPairs :
    returnedFrom(allOf(X)) =>
      LET hits == positionsWith(LAMBDA o :
                    /\ o.termType = "Literal"
                    /\ o.datatype.value = datatypeOf(X)
                    /\ deserialize(X, o.value) # null)
      IN /\ result.type = "normal"
         /\ result.value =
              [k \in 1..Len(hits) |-> deserialize(X, theThing[hits[k]].object.value)]
         /\ \A k \in 1..Len(result.value) : result.value[k] # null
         /\ (/\ X = "Boolean"
             /\ Len(literalsOf(X)) = 2
             /\ {theThing[i].object.value : i \in Range(literalsOf(X))}
                  = {"true", "maybe"})
            => result.value = <<JsBoolean(TRUE)>>

\* C4's case: getBooleanAll returned [true] from "maybe" followed by "true".
C4_Witness ==
  /\ returnedFrom("getBooleanAll")
  /\ result.value = <<JsBoolean(TRUE)>>
  /\ Len(literalsOf("Boolean")) = 2
  /\ theThing[literalsOf("Boolean")[1]].object.value = "maybe"
  /\ theThing[literalsOf("Boolean")[2]].object.value = "true"

\* C5: a datatype-qualified accessor only returns values of literals whose
\* datatype IRI is equal to its datatype constant: its result is the one it
\* gives on the Thing without every other statement, and is null or empty when
\* no statement of P has a literal of exactly that datatype (a decimal literal
\* gives the integer accessors nothing, an integer literal the decimal ones).
C5_ExactDatatype ==
  pc = "returned" => \A X \in TypedPairs :
    LET exact == SelectSeq(theThing, LAMBDA quad :
                   /\ quad.object.termType = "Literal"
                   /\ quad.object.datatype.value = datatypeOf(X))
    IN /\ returnedFrom(oneOf(X)) =>
            /\ result = accessor(oneOf(X), exact, call.predicate, call.locale)
            /\ literalsOf(X) = <<>> => result.value = null
       /\ returnedFrom(allOf(X)) =>
            /\ result = accessor(allOf(X), exact, call.predicate, call.locale)
            /\ literalsOf(X) = <<>> => result.value = <<>>
            /\ Len(result.value) <= Len(literalsOf(X))

\* C5's case: getIntegerOne returned null from a Thing whose statement of P is
\* the decimal literal "3".
C5_Witness ==
  /\ returnedFrom("getIntegerOne")
  /\ result.value = null
  /\ literalsOf("Decimal") # <<>>
  /\ theThing[literalsOf("Decimal")[1]].object.value = "3"

\* C6: the locale accessors select the statements of P whose object is a
\* literal of the language-tagged-string datatype and whose language tag,
\* lower-cased, equals the locale, lower-cased; so two locales that are equal
\* after lower-casing give equal results.
C6_LocaleCaseInsensitive ==
  LET hits == positionsWith(LAMBDA o :
                /\ o.termType = "Literal"
                /\ o.datatype.value = xmlSchemaTypes.langString
                /\ toLowerCase(o.language) = toLowerCase(call.locale.val))
      values == [k \in 1..Len(hits) |-> JsString(theThing[hits[k]].object.value)]
  IN /\ returnedFrom("getStringInLocaleAll") =>
          /\ result = Return(values)
          /\ \A other \in Locales :
               toLowerCase(other) = toLowerCase(call.locale.val) =>
                 getStringInLocaleAll(theThing, call.predicate, other) = result
     /\ returnedFrom("getStringInLocaleOne") =>
          /\ result = Return(IF values = <<>> THEN null ELSE values[1])
          /\ \A other \in Locales :
               toLowerCase(other) = toLowerCase(call.locale.val) =>
                 getStringInLocaleOne(theThing, call.predicate, other) = result
     /\ returnedFrom("getStringInLocaleOne") =>
          /\ toLowerCase("EN") = toLowerCase("en")
          /\ toLowerCase("EN") # toLowerCase("en-us")

\* C6's case: the locale "en" got the string tagged "EN", and not the one
\* tagged "en-US" that precedes it.
C6_Witness ==
  /\ returnedFrom("getStringInLocaleOne")
  /\ call.locale = JsString("en")
  /\ result.value = JsString("Hi")
  /\ Len(literalsOf("StringInLocale")) = 2
  /\ theThing[literalsOf("StringInLocale")[1]].object.language = "en-US"

\* The values an accessor may return.
isValue(X, v) ==
  CASE X \in {"Iri", "StringInLocale", "StringUnlocalized"} ->
         v.type = "string" /\ v.val \in STRING
    [] X = "Boolean" -> v.type = "boolean" /\ v.val \in BOOLEAN
    [] X \in {"Decimal", "Integer"} ->
         v.type = "number" /\ v.val[1] \in Int /\ v.val[2] \in Nat \ {0}
    [] X = "Datetime" -> v.type = "Date"
    [] X = "NamedNode" -> v \in NamedNodes
    [] X = "Literal" -> v \in Literals
AllPairs == ScalarPairs \cup {"NamedNode", "Literal"}

\* C7: no call throws: every getXOne returns a value of its type or null, every
\* getXAll a sequence of values of its type, whatever the Thing holds; and no
\* scan throws.
C7_NoErrorOutcome ==
  /\ result.type = "normal"
  /\ pc = "returned" => \A X \in AllPairs :
       /\ returnedFrom(oneOf(X)) =>
            (result.value = null \/ isValue(X, result.value))
       /\ returnedFrom(allOf(X)) =>
            /\ DOMAIN result.value = 1..Len(result.value)
            /\ \A k \in 1..Len(result.value) : isValue(X, result.value[k])

\* C7's case: getDatetimeOne returned null from a Thing that has, under P, a
\* blank node and a dateTime literal that is no date.
C7_Witness ==
  /\ returnedFrom("getDatetimeOne")
  /\ result = Return(null)
  /\ positionsWith(LAMBDA o : o.termType = "BlankNode") # <<>>
  /\ literalsOf("Datetime") # <<>>

\* C8: a deserializing getXOne is the deserialization of the first statement
\* that matches P and the datatype, and null when there is none; a later
\* statement is not looked at.
C8_OneInspectsFirstMatch ==
  pc = "returned" => \A X \in DeserializingPairs :
    returnedFrom(oneOf(X)) =>
      result = Return(IF literalsOf(X) = <<>> THEN null
                      ELSE deserialize(X, theThing[literalsOf(X)[1]].object.value))

\* C8's case: getBooleanOne returned null although getBooleanAll returns the
\* value of a later statement.
C8_Witness ==
  /\ returnedFrom("getBooleanOne")
  /\ result.value = null
  /\ allResult("Boolean").value = <<JsBoolean(TRUE)>>

\* The running scan's matcher holds for the statement at position i.
scanning(fn) == pc \in {fn, "done"} /\ call.fn = fn
holdsAt(i) == matcherOf(matcherArgs)[theThing[i]].value
firstTo(n) == [k \in 1..n |-> k]

\* C9: findOne applies the matcher to the statements in iteration order and
\* stops at the first one it holds for: it is applied to a statement only if it
\* was false for every statement before, never to a statement after the first
\* match; the result is the earliest match, and null only when every statement
\* was visited and rejected.  findAll visits every statement once and returns
\* the matching ones in statement order, duplicates kept.
C9_ScanOrder ==
  /\ scanning("findOne") =>
       /\ visited = firstTo(pos)
       /\ \A i \in 1..(pos - 1) : ~holdsAt(i)
       /\ pc = "findOne" => \A i \in 1..pos : ~holdsAt(i)
       /\ pc = "done" =>
            /\ result = findOne(theThing, matcherOf(matcherArgs))
            /\ IF result.value = null
               THEN pos = Len(theThing) /\ \A i \in 1..pos : ~holdsAt(i)
               ELSE pos >= 1 /\ holdsAt(pos) /\ result.value = theThing[pos]
  /\ scanning("findAll") =>
       /\ visited = firstTo(pos)
       /\ matched = [k \in 1..Len(matched) |->
                       theThing[ascending({i \in 1..pos : holdsAt(i)})[k]]]
       /\ Len(matched) = Cardinality({i \in 1..pos : holdsAt(i)})
       /\ pc = "done" =>
            /\ visited = firstTo(Len(theThing))
            /\ result = Return(matched)
            /\ result = findAll(theThing, matcherOf(matcherArgs))

\* C9's case: findOne has returned the first statement, and the matcher holds
\* for the second one too, which it never visited.
C9_Witness ==
  /\ pc = "done"
  /\ call.fn = "findOne"
  /\ Len(theThing) = 2
  /\ visited = <<1>>
  /\ result.value = theThing[1]
  /\ holdsAt(2)

\* The object nodes the escape-hatch accessors return are the ones the Thing
\* holds: the same objects (same `ref`), in statement order.
C10_SameNodes ==
  /\ pc = "returned" => \A X \in {"NamedNode", "Literal"} :
       LET hits == positionsWith(LAMBDA o : o.termType = X)
       IN /\ returnedFrom(allOf(X)) =>
               result = Return([k \in 1..Len(hits) |-> theThing[hits[k]].object])
          /\ returnedFrom(oneOf(X)) =>
               result = Return(IF hits = <<>> THEN null ELSE theThing[hits[1]].object)
  /\ \A i \in 1..Len(theThing) : theThing[i].object.ref = i

\* C10: no step of any call changes the Thing (its statements, their order,
\* their nodes), and the escape-hatch accessors return the Thing's own nodes.
C10_ReadOnly == [][theThing' = theThing]_vars /\ []C10_SameNodes

\* C10's case: getLiteralAll returned the nodes of the two statements of a
\* Thing, which are different literals.
C10_Witness ==
  /\ returnedFrom("getLiteralAll")
  /\ Len(result.value) = 2
  /\ result.value[1] = theThing[1].object
  /\ result.value[2] = theThing[2].object
  /\ result.value[1].value # result.value[2].value

====
